---- MODULE Spec2Model ----
(***************************************************************************)
(* A model of the database engine: the JSON-backed table store of          *)
(* core.py / utils.py, the statement parser and WHERE evaluator of         *)
(* parser.py, the decorators of decorators.py and the statement            *)
(* dispatcher of engine.py.                                                *)
(*                                                                         *)
(* Python values are records [t, v]: t is the Python type, v the payload.  *)
(* A float carries its value in tenths (39 is 3.9).  A dict is a sequence  *)
(* of <<key, value>> pairs with distinct keys (Python dicts keep insertion *)
(* order); a stored row is a function from column name to value.           *)
(***************************************************************************)
EXTENDS Integers, Sequences, FiniteSets, TLC

VARIABLES meta, cache, data, written, life, last

vars == <<meta, cache, data, written, life, last>>

(***************************************************************************)
(* Bounds of the model.                                                    *)
(***************************************************************************)
MaxRows == 2

\* The largest id an insert may hand out.
MaxId == 3

(***************************************************************************)
(* constants.py                                                            *)
(***************************************************************************)
\* DB_META_FILE = "db_meta.json" and DATA_DIR = "data": a file path is its
\* directory part (os.path.dirname) and its file name.
DB_META_FILE == [dir |-> "", file |-> "db_meta.json"]

DATA_DIR == "data"

ID_COLUMN == "id"

ID_TYPE == "int"

DEFAULT_COLUMNS == << <<ID_COLUMN, ID_TYPE>> >>

SUPPORTED_TYPES == {"int", "str", "float", "bool"}

(***************************************************************************)
(* Python values.                                                          *)
(***************************************************************************)
PyInt(n) == [t |-> "int", v |-> n]

PyFloat(tenths) == [t |-> "float", v |-> tenths]

PyStr(s) == [t |-> "str", v |-> s]

PyBool(b) == [t |-> "bool", v |-> b]

PyNone == [t |-> "none", v |-> 0]

IsNumeric(x) == x.t \in {"int", "float", "bool"}

\* The numeric value of an int, float or bool, in tenths.
Tenths(x) ==
  CASE x.t = "int" -> 10 * x.v
    [] x.t = "float" -> x.v
    [] x.t = "bool" -> IF x.v THEN 10 ELSE 0

\* Division truncating toward zero, as int(float) does.
TruncDiv(a, b) == IF a >= 0 THEN a \div b ELSE -((-a) \div b)

(***************************************************************************)
(* str.upper() and str.lower() on the words the model types.  A word that  *)
(* has no letters (digits, punctuation, the empty word) maps to itself.    *)
(***************************************************************************)
CaseTable ==
  << <<"t", "T">>, <<"u", "U">>, <<"id", "ID">>, <<"a", "A">>, <<"b", "B">>,
     <<"x", "X">>, <<"y", "Y">>, <<"int", "INT">>, <<"str", "STR">>,
     <<"float", "FLOAT">>, <<"bool", "BOOL">>, <<"text", "TEXT">>,
     <<"true", "TRUE">>, <<"false", "FALSE">>, <<"yes", "YES">>,
     <<"no", "NO">>, <<"f", "F">>, <<"null", "NULL">>, <<"none", "NONE">>,
     <<"n", "N">>, <<"abc", "ABC">> >>

\* Mixed-case spellings: <<word, lower, upper>>.
MixedCaseTable ==
  << <<"True", "true", "TRUE">>, <<"False", "false", "FALSE">>,
     <<"None", "none", "NONE">>, <<"Id", "id", "ID">> >>

\* The words that str.upper() changes, with their upper-case form.
UpperMap ==
  [w \in {CaseTable[i][1] : i \in 1..Len(CaseTable)}
          \cup {MixedCaseTable[i][1] : i \in 1..Len(MixedCaseTable)} |->
     IF \E i \in 1..Len(CaseTable) : CaseTable[i][1] = w
     THEN CaseTable[CHOOSE i \in 1..Len(CaseTable) : CaseTable[i][1] = w][2]
     ELSE MixedCaseTable[CHOOSE i \in 1..Len(MixedCaseTable) : MixedCaseTable[i][1] = w][3]]

\* The words that str.lower() changes, with their lower-case form.
LowerMap ==
  [w \in {CaseTable[i][2] : i \in 1..Len(CaseTable)}
          \cup {MixedCaseTable[i][1] : i \in 1..Len(MixedCaseTable)} |->
     IF \E i \in 1..Len(CaseTable) : CaseTable[i][2] = w
     THEN CaseTable[CHOOSE i \in 1..Len(CaseTable) : CaseTable[i][2] = w][1]
     ELSE MixedCaseTable[CHOOSE i \in 1..Len(MixedCaseTable) : MixedCaseTable[i][1] = w][2]]

Upper(w) == IF w \in DOMAIN UpperMap THEN UpperMap[w] ELSE w

Lower(w) == IF w \in DOMAIN LowerMap THEN LowerMap[w] ELSE w

(***************************************************************************)
(* Literal syntax of numbers: int(s), float(s) and str(n) on the words of  *)
(* the model.  A word outside the tables is no number.                     *)
(***************************************************************************)
IntLiterals == << <<"0", 0>>, <<"1", 1>>, <<"2", 2>>, <<"3", 3>>, <<"4", 4>>,
                  <<"5", 5>>, <<"6", 6>>, <<"7", 7>>, <<"8", 8>>, <<"9", 9>> >>

\* <<text, tenths>>: the texts float() accepts beyond the integer literals.
FloatLiterals == << <<"3.9", 39>>, <<"0.5", 5>>, <<"1.0", 10>>, <<"2.0", 20>>,
                    <<"0.0", 0>>, <<"3.0", 30>>, <<"4.9", 49>> >>

IsIntLiteral(s) == \E i \in 1..Len(IntLiterals) : IntLiterals[i][1] = s

IntOfLiteral(s) ==
  IntLiterals[CHOOSE i \in 1..Len(IntLiterals) : IntLiterals[i][1] = s][2]

IsFloatLiteral(s) == \E i \in 1..Len(FloatLiterals) : FloatLiterals[i][1] = s

FloatOfLiteral(s) ==
  FloatLiterals[CHOOSE i \in 1..Len(FloatLiterals) : FloatLiterals[i][1] = s][2]

\* str(n) of an int.
IntToStr(n) ==
  IF \E i \in 1..Len(IntLiterals) : IntLiterals[i][2] = n
  THEN IntLiterals[CHOOSE i \in 1..Len(IntLiterals) : IntLiterals[i][2] = n][1]
  ELSE "<int>"

\* str(x) of a float, from its tenths.
FloatToStr(tenths) ==
  IF \E i \in 1..Len(FloatLiterals) : FloatLiterals[i][2] = tenths
  THEN FloatLiterals[CHOOSE i \in 1..Len(FloatLiterals) : FloatLiterals[i][2] = tenths][1]
  ELSE "<float>"

(***************************************************************************)
(* Python dicts as sequences of <<key, value>> pairs with distinct keys.   *)
(***************************************************************************)
Keys(d) == {d[i][1] : i \in 1..Len(d)}

Has(d, k) == \E i \in 1..Len(d) : d[i][1] = k

Get(d, k) == d[CHOOSE i \in 1..Len(d) : d[i][1] = k][2]

\* d[k] = v: an existing key keeps its position, a new key is appended.
Put(d, k, v) ==
  IF Has(d, k)
  THEN [i \in 1..Len(d) |-> IF d[i][1] = k THEN <<k, v>> ELSE d[i]]
  ELSE Append(d, <<k, v>>)

\* {**d1, **d2}
RECURSIVE Merge(_, _)
Merge(d1, d2) ==
  IF d2 = <<>> THEN d1
  ELSE Merge(Put(d1, d2[1][1], d2[1][2]), Tail(d2))

(***************************************************************************)
(* utils.py: DataValidator._cast_value, the one core.py imports.           *)
(* CastFails(value, type) is the ValueError; _cast_value the result.       *)
(***************************************************************************)
CastFails(value, expected_type) ==
  CASE expected_type = "int" ->
         \/ value.t = "none"
         \/ value.t = "str" /\ ~IsIntLiteral(value.v)
    [] expected_type = "float" ->
         \/ value.t = "none"
         \/ value.t = "str" /\ ~IsIntLiteral(value.v) /\ ~IsFloatLiteral(value.v)
    [] expected_type = "bool" ->
         /\ value.t # "bool"
         /\ ~(value.t = "str" /\ Lower(value.v) \in {"true", "1", "yes", "false", "0", "no"})
    [] OTHER -> FALSE

_cast_value(value, expected_type) ==
  CASE expected_type = "int" ->
         (CASE value.t = "int" -> value
            [] value.t = "bool" -> PyInt(IF value.v THEN 1 ELSE 0)
            [] value.t = "float" -> PyInt(TruncDiv(value.v, 10))
            [] OTHER -> PyInt(IntOfLiteral(value.v)))
    [] expected_type = "float" ->
         (CASE value.t = "str" ->
                 IF IsIntLiteral(value.v) THEN PyFloat(10 * IntOfLiteral(value.v))
                 ELSE PyFloat(FloatOfLiteral(value.v))
            [] OTHER -> PyFloat(Tenths(value)))
    [] expected_type = "bool" ->
         (CASE value.t = "bool" -> value
            [] OTHER -> PyBool(Lower(value.v) \in {"true", "1", "yes"}))
    [] OTHER ->
         (CASE value.t = "str" -> value
            [] value.t = "int" -> PyStr(IntToStr(value.v))
            [] value.t = "float" -> PyStr(FloatToStr(value.v))
            [] value.t = "bool" -> PyStr(IF value.v THEN "True" ELSE "False")
            [] OTHER -> PyStr("None"))

(***************************************************************************)
(* utils.py: DataValidator.validate_row_data.  columns is the schema dict, *)
(* row_data the list of supplied values.                                   *)
(***************************************************************************)
\* [name for name in columns.keys() if name != "id"]
NonIdPairs(columns) == SelectSeq(columns, LAMBDA p : p[1] # "id")

\* The names matched to the values from the last column backwards.
ZipColumnReversed(col_names, i) == col_names[Len(col_names) + 1 - i][1]

\* zip(col_names, row_data): the name matched to the i-th value.
ZipColumn(col_names, i) == col_names[i][1]

\* "arity": the length check raises; "cast": a _cast_value raises; else "".
ValidateError(columns, row_data) ==
  IF Len(row_data) # Len(columns) - 1 THEN "arity"
  ELSE LET col_names == NonIdPairs(columns)
           n == IF Len(col_names) < Len(row_data) THEN Len(col_names) ELSE Len(row_data)
       IN IF \E i \in 1..n : CastFails(row_data[i], Get(columns, ZipColumn(col_names, i)))
          THEN "cast" ELSE ""

validate_row_data(columns, row_data) ==
  LET col_names == NonIdPairs(columns)
      n == IF Len(col_names) < Len(row_data) THEN Len(col_names) ELSE Len(row_data)
  IN [c \in {ZipColumn(col_names, i) : i \in 1..n} |->
        LET i == CHOOSE j \in 1..n : ZipColumn(col_names, j) = c
        IN _cast_value(row_data[i], Get(columns, c))]

(***************************************************************************)
(* Statement text.  A text is a sequence of pieces [k, q, s]: a word       *)
(* (k = "tok": s is the word, q its quote character or "" when unquoted),  *)
(* one punctuation character (k = "op") or a blank (k = "sp").  Words are  *)
(* atomic: they hold no blank, comma, quote or comparison character.       *)
(***************************************************************************)
Tok(s) == [k |-> "tok", q |-> "", s |-> s]

Quoted(q, s) == [k |-> "tok", q |-> q, s |-> s]

Op(c) == [k |-> "op", q |-> "", s |-> c]

Sp == [k |-> "sp", q |-> "", s |-> " "]

\* The characters of a piece, and of a text.
PieceText(p) == p.q \o p.s \o p.q

RECURSIVE TextOf(_)
TextOf(text) ==
  IF text = <<>> THEN "" ELSE PieceText(text[1]) \o TextOf(Tail(text))

\* str.strip()
RECURSIVE Strip(_)
Strip(text) ==
  IF text = <<>> THEN <<>>
  ELSE IF text[1].k = "sp" THEN Strip(Tail(text))
  ELSE IF text[Len(text)].k = "sp" THEN Strip(SubSeq(text, 1, Len(text) - 1))
  ELSE text

\* str.upper() of a piece and of a text, as execute_command applies it.
UpperPiece(p) == [p EXCEPT !.s = Upper(p.s)]

UpperText(text) == [i \in 1..Len(text) |-> UpperPiece(text[i])]

(***************************************************************************)
(* parser.py: CommandParser._parse_value                                   *)
(***************************************************************************)
_parse_value(value) ==
  IF Len(value) = 1 /\ value[1].k = "tok"
  THEN LET w == value[1].s IN
       IF value[1].q # "" THEN PyStr(w)
       ELSE IF Lower(w) = "true" THEN PyBool(TRUE)
       ELSE IF Lower(w) = "false" THEN PyBool(FALSE)
       ELSE IF Lower(w) = "null" \/ Lower(w) = "none" THEN PyNone
       ELSE IF IsIntLiteral(w) THEN PyInt(IntOfLiteral(w))
       ELSE IF IsFloatLiteral(w) THEN PyFloat(FloatOfLiteral(w))
       ELSE PyStr(w)
  ELSE IF /\ Len(value) > 1
          /\ value[1].q # ""
          /\ value[Len(value)].q = value[1].q
  THEN PyStr(value[1].s \o value[1].q
               \o TextOf(SubSeq(value, 2, Len(value) - 1))
               \o value[1].q \o value[Len(value)].s)
  ELSE PyStr(TextOf(value))

(***************************************************************************)
(* Python comparison of two values: "T", "F", or "E" for the TypeError.    *)
(***************************************************************************)
\* The strings of the model in Python's (code point) order.
StrOrder == <<"", "0", "1", "2", "3", "3.9", "ABC", "False", "None", "True",
              "X", "Y", "abc", "x", "y">>

StrRank(w) ==
  IF \E i \in 1..Len(StrOrder) : StrOrder[i] = w
  THEN CHOOSE i \in 1..Len(StrOrder) : StrOrder[i] = w
  ELSE 0

PyEq(l, r) ==
  \/ IsNumeric(l) /\ IsNumeric(r) /\ Tenths(l) = Tenths(r)
  \/ l.t = "str" /\ r.t = "str" /\ l.v = r.v
  \/ l.t = "none" /\ r.t = "none"

Comparable(l, r) ==
  \/ IsNumeric(l) /\ IsNumeric(r)
  \/ l.t = "str" /\ r.t = "str"

PyLess(l, r) ==
  IF l.t = "str" THEN StrRank(l.v) < StrRank(r.v) ELSE Tenths(l) < Tenths(r)

Bool3(b) == IF b THEN "T" ELSE "F"

Compare(op, l, r) ==
  CASE op = <<"=">> -> Bool3(PyEq(l, r))
    [] op = <<"!", "=">> -> Bool3(~PyEq(l, r))
    [] OTHER ->
         IF ~Comparable(l, r) THEN "E"
         ELSE CASE op = <<">">> -> Bool3(PyLess(r, l))
                [] op = <<"<">> -> Bool3(PyLess(l, r))
                [] op = <<">", "=">> -> Bool3(~PyLess(l, r))
                [] op = <<"<", "=">> -> Bool3(~PyLess(r, l))

(***************************************************************************)
(* parser.py: CommandParser.evaluate_condition                             *)
(***************************************************************************)
\* The operators with the one-character ones tried first.
operators_short_first == << <<"=">>, <<">">>, <<"<">>, <<">", "=">>, <<"<", "=">>, <<"!", "=">> >>

operators == << <<">", "=">>, <<"<", "=">>, <<"!", "=">>, <<"=">>, <<">">>, <<"<">> >>

\* The characters of op stand at position i of the condition.
OpAt(condition, op, i) ==
  /\ i + Len(op) - 1 <= Len(condition)
  /\ \A j \in 1..Len(op) : condition[i + j - 1].k = "op" /\ condition[i + j - 1].s = op[j]

\* op in condition
OpIn(condition, op) == \E i \in 1..Len(condition) : OpAt(condition, op, i)

\* for op in operators: if op in condition: the index of the first operator,
\* from the n-th on, that occurs in the condition; 0 when none does.
RECURSIVE FirstOp(_, _)
FirstOp(condition, n) ==
  IF n > Len(operators) THEN 0
  ELSE IF OpIn(condition, operators[n]) THEN n
  ELSE FirstOp(condition, n + 1)

\* condition.split(op, 1): the position of the first occurrence from i on.
RECURSIVE FirstAt(_, _, _)
FirstAt(condition, op, i) ==
  IF OpAt(condition, op, i) THEN i ELSE FirstAt(condition, op, i + 1)

\* row.get(left)
RowGet(row, left) ==
  IF Len(left) = 1 /\ left[1].k = "tok" /\ left[1].q = "" /\ left[1].s \in DOMAIN row
  THEN row[left[1].s]
  ELSE PyNone

evaluate_condition(row, condition) ==
  LET n == FirstOp(condition, 1) IN
  IF n # 0
  THEN LET op == operators[n]
           i == FirstAt(condition, op, 1)
           left == Strip(SubSeq(condition, 1, i - 1))
           right == Strip(SubSeq(condition, i + Len(op), Len(condition)))
       IN Compare(op, RowGet(row, left), _parse_value(right))
  ELSE "T"

(***************************************************************************)
(* Results.  kind is "ok" (a success message), "error" (an "Error: ..." or *)
(* "Unexpected error: ..." string), "cancelled" ("Action cancelled"),      *)
(* "rows" (the list select_rows returns) or "list" (list_tables).  msg     *)
(* names the message, n the count of an update or delete.                  *)
(***************************************************************************)
Res(kind, msg, n, rows) == [kind |-> kind, msg |-> msg, n |-> n, rows |-> rows]

Ok(msg) == Res("ok", msg, 0, <<>>)

Count(msg, n) == Res("ok", msg, n, <<>>)

\* An exception that no handler turns into a result.
Raised(msg) == Res("none", msg, 0, <<>>)

Err(msg) == Res("error", msg, 0, <<>>)

Cancelled == Res("cancelled", "Action cancelled", 0, <<>>)

NoRes == Res("none", "", 0, <<>>)

\* decorators.py, handle_db_errors: "Error: Table does not exist"
TableNotFound == Err("table_not_exists")

(***************************************************************************)
(* The store.  st.meta is the dict in db_meta.json (table name to schema   *)
(* dict; a missing file reads as the empty dict), st.data[name] the file   *)
(* data/<name>.json, st.cache the cache dict of cache_results, st.written  *)
(* the dict handed to the latest write_table_metadata call.  json.dump     *)
(* followed by json.load gives back the ints, floats, strings, booleans    *)
(* and nulls it was given, so a file holds the rows as written.            *)
(***************************************************************************)
TableNames == {"t", "T"}

NoFile == [exists |-> FALSE, rows |-> <<>>]

File(rows) == [exists |-> TRUE, rows |-> rows]

Store(m, c, d, w) == [meta |-> m, cache |-> c, data |-> d, written |-> w]

Out(st, res) == [st |-> st, res |-> res]

\* A del that removes nothing.
RemoveNothing(d, k) == d

\* del d[k]
Remove(d, k) == SelectSeq(d, LAMBDA p : p[1] # k)

(***************************************************************************)
(* decorators.py: cache_results around FileManager.read_table_metadata.    *)
(* The wrapper stores the dict the first call returns and hands out that   *)
(* same object on every call.                                              *)
(***************************************************************************)
cache_results(c, m) == IF c.set THEN c ELSE [set |-> TRUE, val |-> m]

\* utils.py: the store after read_table_metadata(); the dict it returns is
\* st.cache.val of the result.
read_table_metadata(st) == [st EXCEPT !.cache = cache_results(st.cache, st.meta)]

\* A cache that holds a copy: a change of the returned dict does not reach it.
MutateCopy(c, md) == c

\* The caller changed the dict read_table_metadata returned: the cached
\* object is that dict, so the cache holds the change.
MutateReturned(c, md) == [c EXCEPT !.val = md]

\* utils.py: FileManager.write_json starts with
\* os.makedirs(os.path.dirname(filepath), exist_ok=True), which raises
\* FileNotFoundError for the empty directory name; handle_db_errors turns
\* that into a returned string, which the callers drop: nothing is written.
MakedirsFails(filepath) == filepath.dir = ""

DataPath(table_name) == [dir |-> DATA_DIR, file |-> table_name]

\* utils.py: FileManager.write_table_metadata
write_table_metadata(st, md) ==
  [st EXCEPT !.meta = IF MakedirsFails(DB_META_FILE) THEN @ ELSE md,
             !.written = [set |-> TRUE, val |-> md]]

\* utils.py: FileManager.read_table_data
read_table_data(st, table_name) == st.data[table_name].rows

\* utils.py: FileManager.write_table_data
write_table_data(st, table_name, rows) ==
  IF MakedirsFails(DataPath(table_name)) THEN st
  ELSE [st EXCEPT !.data[table_name] = File(rows)]

\* A drop that leaves the data file where it is.
keep_table_file(st, table_name) == st

\* utils.py: FileManager.delete_table_file
delete_table_file(st, table_name) == [st EXCEPT !.data[table_name] = NoFile]

\* utils.py: FileManager.table_exists, on the store after its metadata read.
table_exists(st, table_name) == Has(read_table_metadata(st).cache.val, table_name)

(***************************************************************************)
(* decorators.py: confirm_action.  answer is what input() returned.        *)
(***************************************************************************)
\* A confirmation that compares the answer without lower().
ConfirmedExact(answer) == answer = "y"

Confirmed(answer) == Lower(answer) = "y"

(***************************************************************************)
(* core.py: DatabaseEngine.create_table                                    *)
(***************************************************************************)
\* create_table without the table_exists check.
create_table_unchecked(st, table_name, columns) ==
  LET s1 == read_table_metadata(st)
      all_columns == Merge(DEFAULT_COLUMNS, columns)
      metadata == Put(s1.cache.val, table_name, all_columns)
      s2 == [s1 EXCEPT !.cache = MutateReturned(s1.cache, metadata)]
      s3 == write_table_metadata(s2, metadata)
      s4 == write_table_data(s3, table_name, <<>>)
  IN Out(s4, Ok("table_created"))

create_table(st, table_name, columns) ==
  LET s1 == read_table_metadata(st) IN
  IF table_exists(st, table_name) THEN Out(s1, Err("table_exists"))
  ELSE LET all_columns == Merge(DEFAULT_COLUMNS, columns)
           metadata == Put(s1.cache.val, table_name, all_columns)
           s2 == [s1 EXCEPT !.cache = MutateReturned(s1.cache, metadata)]
           s3 == write_table_metadata(s2, metadata)
           s4 == write_table_data(s3, table_name, <<>>)
       IN Out(s4, Ok("table_created"))

(***************************************************************************)
(* core.py: DatabaseEngine.drop_table                                      *)
(***************************************************************************)
\* drop_table with the confirmation asked after the table_exists check.
drop_table_asks_last(st, table_name, answer) ==
  LET s1 == read_table_metadata(st) IN
  IF ~table_exists(st, table_name) THEN Out(s1, TableNotFound)
  ELSE IF ~Confirmed(answer) THEN Out(s1, Cancelled)
  ELSE LET metadata == Remove(s1.cache.val, table_name)
           s2 == [s1 EXCEPT !.cache = MutateReturned(s1.cache, metadata)]
           s3 == write_table_metadata(s2, metadata)
           s4 == delete_table_file(s3, table_name)
       IN Out(s4, Ok("table_dropped"))

drop_table(st, table_name, answer) ==
  IF ~Confirmed(answer) THEN Out(st, Cancelled)
  ELSE LET s1 == read_table_metadata(st) IN
       IF ~table_exists(st, table_name) THEN Out(s1, TableNotFound)
       ELSE LET metadata == Remove(s1.cache.val, table_name)
                s2 == [s1 EXCEPT !.cache = MutateReturned(s1.cache, metadata)]
                s3 == write_table_metadata(s2, metadata)
                s4 == delete_table_file(s3, table_name)
            IN Out(s4, Ok("table_dropped"))

(***************************************************************************)
(* core.py: DatabaseEngine.list_tables                                     *)
(***************************************************************************)
list_tables(st) ==
  LET s1 == read_table_metadata(st)
  IN Out(s1, Res("list", "", 0, [i \in 1..Len(s1.cache.val) |-> s1.cache.val[i][1]]))

(***************************************************************************)
(* core.py: DatabaseEngine.insert_row                                      *)
(***************************************************************************)
\* [row.get(ID_COLUMN, 0) for row in data]
RowId(row) == IF ID_COLUMN \in DOMAIN row THEN row[ID_COLUMN] ELSE PyInt(0)

\* max(ids, default=0) + 1 raises TypeError when an id is no number.
NewIdFails(rows) == \E i \in 1..Len(rows) : ~IsNumeric(RowId(rows[i]))

\* An id counted from the number of rows: len(data) + 1.
NewIdByCount(rows) == PyInt(Len(rows) + 1)

\* max() returns the first of the largest ids; + 1 keeps a float a float.
NewId(rows) ==
  IF rows = <<>> THEN PyInt(1)
  ELSE LET i == CHOOSE j \in 1..Len(rows) :
                  /\ \A k \in 1..Len(rows) : Tenths(RowId(rows[k])) <= Tenths(RowId(rows[j]))
                  /\ \A k \in 1..(j - 1) : Tenths(RowId(rows[k])) < Tenths(RowId(rows[j]))
           m == RowId(rows[i])
       IN IF m.t = "float" THEN PyFloat(m.v + 10) ELSE PyInt(Tenths(m) \div 10 + 1)

\* A row stored as validated, without the id.
WithoutId(validated_data, new_id) == validated_data

\* validated_data[ID_COLUMN] = new_id
WithId(validated_data, new_id) ==
  [c \in DOMAIN validated_data \cup {ID_COLUMN} |->
     IF c = ID_COLUMN THEN new_id ELSE validated_data[c]]

\* insert_row with data.insert(0, validated_data) in place of data.append.
insert_row_first(st, table_name, values) ==
  LET s1 == read_table_metadata(st) IN
  IF ~table_exists(st, table_name) THEN Out(s1, TableNotFound)
  ELSE LET columns == Get(s1.cache.val, table_name)
           rows == read_table_data(s1, table_name)
       IN IF ValidateError(columns, values) # ""
          THEN Out(s1, Err(ValidateError(columns, values)))
          ELSE IF NewIdFails(rows) THEN Out(s1, Err("unexpected"))
          ELSE LET validated_data == WithId(validate_row_data(columns, values), NewId(rows))
               IN Out(write_table_data(s1, table_name, <<validated_data>> \o rows),
                      Ok("row_inserted"))

\* insert_row that takes the id column out of the schema dict it was handed
\* (columns.pop(ID_COLUMN)): the dict is the cached one, so the schema changes.
insert_row_alter(st, table_name, values) ==
  LET s1 == read_table_metadata(st) IN
  IF ~table_exists(st, table_name) THEN Out(s1, TableNotFound)
  ELSE LET columns == Get(s1.cache.val, table_name)
           rows == read_table_data(s1, table_name)
           metadata == Put(s1.cache.val, table_name, NonIdPairs(columns))
           s2 == [s1 EXCEPT !.cache = MutateReturned(s1.cache, metadata)]
       IN IF ValidateError(columns, values) # ""
          THEN Out(s2, Err(ValidateError(columns, values)))
          ELSE IF NewIdFails(rows) THEN Out(s2, Err("unexpected"))
          ELSE LET validated_data == WithId(validate_row_data(columns, values), NewId(rows))
               IN Out(write_table_data(s2, table_name, Append(rows, validated_data)),
                      Ok("row_inserted"))

insert_row(st, table_name, values) ==
  LET s1 == read_table_metadata(st) IN
  IF ~table_exists(st, table_name) THEN Out(s1, TableNotFound)
  ELSE LET columns == Get(s1.cache.val, table_name)
           rows == read_table_data(s1, table_name)
       IN IF ValidateError(columns, values) # ""
          THEN Out(s1, Err(ValidateError(columns, values)))
          ELSE IF NewIdFails(rows) THEN Out(s1, Err("unexpected"))
          ELSE LET validated_data == WithId(validate_row_data(columns, values), NewId(rows))
               IN Out(write_table_data(s1, table_name, Append(rows, validated_data)),
                      Ok("row_inserted"))

(***************************************************************************)
(* core.py: DatabaseEngine.select_rows.  where_condition is a text; the    *)
(* empty text stands for None and for "", which the code treats alike.     *)
(***************************************************************************)
\* What the WHERE test gives on each row, in the order of the loop: "T" for
\* every row when there is no WHERE clause.
Verdicts(rows, where_condition) ==
  [i \in 1..Len(rows) |->
     IF where_condition = <<>> THEN "T"
     ELSE evaluate_condition(rows[i], where_condition)]

\* A comparison of the WHERE clause raises on one of the rows.
WhereFails(verdicts) == \E i \in 1..Len(verdicts) : verdicts[i] = "E"

\* The positions of the rows for which the test gives b, in order.
Positions(verdicts, b) ==
  SelectSeq([i \in 1..Len(verdicts) |-> i], LAMBDA i : (verdicts[i] = "T") = b)

\* The projection of one row on the requested columns.
Project(row, columns) ==
  IF columns = <<"*">> THEN row
  ELSE [c \in {columns[i] : i \in 1..Len(columns)} \cap DOMAIN row |-> row[c]]

select_rows(st, table_name, columns, where_condition) ==
  LET s1 == read_table_metadata(st) IN
  IF ~table_exists(st, table_name) THEN Out(s1, TableNotFound)
  ELSE LET rows == read_table_data(s1, table_name)
           verdicts == Verdicts(rows, where_condition)
       IN IF WhereFails(verdicts) THEN Out(s1, Err("unexpected"))
          ELSE LET kept == Positions(verdicts, TRUE)
               IN Out(s1, Res("rows", "", 0,
                              [i \in 1..Len(kept) |-> Project(rows[kept[i]], columns)]))

(***************************************************************************)
(* core.py: DatabaseEngine.update_rows.  updates is a dict (column name to *)
(* new value) in the order of its items.                                   *)
(***************************************************************************)
\* The SET column at which the first loop returns, 0 when it runs through.
FirstBadUpdate(columns, updates) ==
  LET Bad(i) == \/ ~Has(columns, updates[i][1])
                \/ CastFails(updates[i][2], Get(columns, updates[i][1]))
  IN IF \E i \in 1..Len(updates) : Bad(i)
     THEN CHOOSE i \in 1..Len(updates) : Bad(i) /\ \A j \in 1..(i - 1) : ~Bad(j)
     ELSE 0

\* updates[col_name] = _cast_value(new_value, expected_type), for every item
CastUpdates(columns, updates) ==
  [i \in 1..Len(updates) |->
     <<updates[i][1], _cast_value(updates[i][2], Get(columns, updates[i][1]))>>]

\* row.update(updates)
RowUpdate(row, updates) ==
  [c \in DOMAIN row \cup Keys(updates) |->
     IF Has(updates, c) THEN Get(updates, c) ELSE row[c]]

\* A row loop that skips the WHERE test.
UpdatedRowAll(row, updates, verdict) == RowUpdate(row, updates)

\* The row loop of update_rows on one row.
UpdatedRow(row, updates, verdict) ==
  IF verdict = "T" THEN RowUpdate(row, updates) ELSE row

\* An update_rows that validates and writes column by column: the columns
\* before the failing one are already stored when the error is returned.
update_rows_eager(st, table_name, updates, where_condition) ==
  LET s1 == read_table_metadata(st) IN
  IF ~table_exists(st, table_name) THEN Out(s1, TableNotFound)
  ELSE LET columns == Get(s1.cache.val, table_name)
           rows == read_table_data(s1, table_name)
           bad == FirstBadUpdate(columns, updates)
           good == IF bad = 0 THEN updates ELSE SubSeq(updates, 1, bad - 1)
           verdicts == Verdicts(rows, where_condition)
       IN IF WhereFails(verdicts) THEN Out(s1, Err("unexpected"))
          ELSE LET cast == CastUpdates(columns, good)
                   new_rows == [i \in 1..Len(rows) |->
                                  UpdatedRow(rows[i], cast, verdicts[i])]
                   updated_count == Len(Positions(verdicts, TRUE))
                   s2 == write_table_data(s1, table_name, new_rows)
               IN IF bad # 0
                  THEN Out(s2, Err(IF ~Has(columns, updates[bad][1])
                                   THEN "column_not_found" ELSE "cast"))
                  ELSE Out(s2, Count("rows_updated", updated_count))

update_rows(st, table_name, updates, where_condition) ==
  LET s1 == read_table_metadata(st) IN
  IF ~table_exists(st, table_name) THEN Out(s1, TableNotFound)
  ELSE LET columns == Get(s1.cache.val, table_name)
           rows == read_table_data(s1, table_name)
           bad == FirstBadUpdate(columns, updates)
           verdicts == Verdicts(rows, where_condition)
       IN IF bad # 0
          THEN Out(s1, Err(IF ~Has(columns, updates[bad][1])
                           THEN "column_not_found" ELSE "cast"))
          ELSE IF WhereFails(verdicts) THEN Out(s1, Err("unexpected"))
          ELSE LET cast == CastUpdates(columns, updates)
                   new_rows == [i \in 1..Len(rows) |->
                                  UpdatedRow(rows[i], cast, verdicts[i])]
                   updated_count == Len(Positions(verdicts, TRUE))
               IN Out(write_table_data(s1, table_name, new_rows),
                      Count("rows_updated", updated_count))

(***************************************************************************)
(* core.py: DatabaseEngine.delete_rows                                     *)
(***************************************************************************)
\* The rows the list comprehension of delete_rows keeps.
KeptRows(rows, verdicts) ==
  LET kept == Positions(verdicts, FALSE)
  IN [i \in 1..Len(kept) |-> rows[kept[i]]]

delete_rows(st, table_name, where_condition, answer) ==
  IF ~Confirmed(answer) THEN Out(st, Cancelled)
  ELSE LET s1 == read_table_metadata(st) IN
       IF ~table_exists(st, table_name) THEN Out(s1, TableNotFound)
       ELSE LET rows == read_table_data(s1, table_name)
                verdicts == Verdicts(rows, where_condition)
            IN IF WhereFails(verdicts) THEN Out(s1, Err("unexpected"))
               ELSE LET new_data == IF where_condition # <<>>
                                    THEN KeptRows(rows, verdicts) ELSE <<>>
                        deleted_count == Len(rows) - Len(new_data)
                    IN Out(write_table_data(s1, table_name, new_data),
                           Count("rows_deleted", deleted_count))

(***************************************************************************)
(* A statement as typed.  kind is the statement its leading keywords       *)
(* select ("other" when they select none), name the table-name word ("" if *)
(* there is none), cols the column clauses of CREATE between the commas    *)
(* (each the list of its blank-separated words), vals the literals of      *)
(* INSERT between the commas, sel the column list of SELECT, sets the      *)
(* assignments of UPDATE between the commas, where the text after WHERE    *)
(* (empty when the statement has no WHERE).                                *)
(***************************************************************************)
Stmt(kind, name, cols, vals, sel, sets, where) ==
  [kind |-> kind, name |-> name, cols |-> cols, vals |-> vals,
   sel |-> sel, sets |-> sets, where |-> where]

\* engine.py: command.strip().upper()
UpperStmt(c) ==
  [kind |-> c.kind,
   name |-> Upper(c.name),
   cols |-> [i \in 1..Len(c.cols) |-> [j \in 1..Len(c.cols[i]) |-> Upper(c.cols[i][j])]],
   vals |-> [i \in 1..Len(c.vals) |-> UpperText(c.vals[i])],
   sel |-> [i \in 1..Len(c.sel) |-> Upper(c.sel[i])],
   sets |-> [i \in 1..Len(c.sets) |-> UpperText(c.sets[i])],
   where |-> UpperText(c.where)]

(***************************************************************************)
(* parser.py: CommandParser.parse_create_table.  ParseCreateError is the   *)
(* ValueError it raises ("" when none), parse_create_table the columns.    *)
(***************************************************************************)
ParseCreateError(command) ==
  IF command.name = "" \/ command.cols = <<>> THEN "invalid_syntax"
  ELSE LET Bad(i) == \/ Len(command.cols[i]) = 1
                     \/ /\ Len(command.cols[i]) >= 2
                        /\ Lower(command.cols[i][2]) \notin SUPPORTED_TYPES
       IN IF \E i \in 1..Len(command.cols) : Bad(i)
          THEN LET i == CHOOSE k \in 1..Len(command.cols) :
                          Bad(k) /\ \A j \in 1..(k - 1) : ~Bad(j)
               IN IF Len(command.cols[i]) = 1 THEN "invalid_syntax" ELSE "invalid_type"
          ELSE ""

\* columns[col_name] = col_type, clause after clause
RECURSIVE CreateColumns(_, _)
CreateColumns(cols, columns) ==
  IF cols = <<>> THEN columns
  ELSE IF cols[1] = <<>> THEN CreateColumns(Tail(cols), columns)
  ELSE CreateColumns(Tail(cols), Put(columns, cols[1][1], Lower(cols[1][2])))

parse_create_table(command) == CreateColumns(command.cols, <<>>)

(***************************************************************************)
(* parser.py: CommandParser._split_values and parse_insert.  The value     *)
(* list is given as its pieces between the top-level commas.               *)
(***************************************************************************)
_split_values(vals) ==
  LET stripped == [i \in 1..Len(vals) |-> Strip(vals[i])]
  IN IF stripped # <<>> /\ stripped[Len(stripped)] = <<>>
     THEN SubSeq(stripped, 1, Len(stripped) - 1)
     ELSE stripped

ParseInsertError(command) ==
  IF command.name = "" \/ command.vals = <<>> THEN "invalid_syntax" ELSE ""

parse_insert(command) ==
  LET values == _split_values(command.vals)
  IN [i \in 1..Len(values) |-> _parse_value(values[i])]

(***************************************************************************)
(* parser.py: parse_select, parse_delete, parse_drop_table                 *)
(***************************************************************************)
ParseSelectError(command) ==
  IF command.name = "" \/ command.sel = <<>> THEN "invalid_syntax" ELSE ""

ParseDeleteError(command) == IF command.name = "" THEN "invalid_syntax" ELSE ""

ParseDropError(command) == IF command.name = "" THEN "invalid_syntax" ELSE ""

(***************************************************************************)
(* parser.py: CommandParser.parse_update                                   *)
(***************************************************************************)
EqIn(assignment) == OpIn(assignment, <<"=">>)

ParseUpdateError(command) ==
  IF command.name = "" \/ command.sets = <<>> THEN "invalid_syntax"
  ELSE IF \E i \in 1..Len(command.sets) : ~EqIn(Strip(command.sets[i]))
  THEN "invalid_assignment" ELSE ""

\* assignment.split("=", 1): <<col_name, value>>
Assignment(assignment) ==
  LET i == FirstAt(assignment, <<"=">>, 1)
  IN <<TextOf(Strip(SubSeq(assignment, 1, i - 1))),
       _parse_value(Strip(SubSeq(assignment, i + 1, Len(assignment))))>>

RECURSIVE UpdateDict(_, _)
UpdateDict(sets, updates) ==
  IF sets = <<>> THEN updates
  ELSE LET kv == Assignment(Strip(sets[1]))
       IN UpdateDict(Tail(sets), Put(updates, kv[1], kv[2]))

parse_update(command) == UpdateDict(command.sets, <<>>)

(***************************************************************************)
(* engine.py: DatabaseSession.execute_command                              *)
(***************************************************************************)
execute_command(st, typed, answer) ==
  LET command == UpperStmt(typed) IN
  CASE command.kind = "create" ->
         IF ParseCreateError(command) # "" THEN Out(st, Err(ParseCreateError(command)))
         ELSE create_table(st, command.name, parse_create_table(command))
    [] command.kind = "drop" ->
         IF ParseDropError(command) # "" THEN Out(st, Err(ParseDropError(command)))
         ELSE drop_table(st, command.name, answer)
    [] command.kind = "list" ->
         LET out == list_tables(st)
         IN IF out.res.rows = <<>> THEN Out(out.st, Ok("No tables exist")) ELSE out
    [] command.kind = "insert" ->
         IF ParseInsertError(command) # "" THEN Out(st, Err(ParseInsertError(command)))
         ELSE insert_row(st, command.name, parse_insert(command))
    [] command.kind = "select" ->
         IF ParseSelectError(command) # "" THEN Out(st, Err(ParseSelectError(command)))
         ELSE select_rows(st, command.name, command.sel, command.where)
    [] command.kind = "update" ->
         IF ParseUpdateError(command) # "" THEN Out(st, Err(ParseUpdateError(command)))
         ELSE update_rows(st, command.name, parse_update(command), command.where)
    [] command.kind = "delete" ->
         IF ParseDeleteError(command) # "" THEN Out(st, Err(ParseDeleteError(command)))
         ELSE delete_rows(st, command.name, command.where, answer)
    [] OTHER -> Out(st, Err("unknown_command"))

(***************************************************************************)
(* The calls a program makes on DatabaseEngine, with their arguments.      *)
(***************************************************************************)
\* columns of create_table
ColumnChoices ==
  { << <<"a", "int">>, <<"b", "str">> >>,
    << <<"id", "str">> >> }

\* values of insert_row
ValuesChoices ==
  { <<>>,
    <<PyInt(1), PyStr("x")>>, <<PyStr("x"), PyInt(1)>>, <<PyStr("2"), PyStr("x")>> }

\* updates of update_rows
UpdatesChoices ==
  { << <<"a", PyInt(1)>> >>,
    << <<"a", PyStr("2")>> >>,
    << <<"id", PyInt(2)>> >>,
    << <<"z", PyInt(1)>> >>,
    << <<"b", PyInt(1)>>, <<"a", PyStr("x")>> >> }

\* where_condition: None, id = 1, a > 1
WhereChoices ==
  { <<>>,
    <<Tok("id"), Sp, Op("="), Sp, Tok("1")>>,
    <<Tok("a"), Sp, Op(">"), Sp, Tok("1")>> }

\* columns of select_rows
SelectChoices == { <<"*">>, <<"b", "id">> }

\* what the user answers to the confirmation prompt
AnswerChoices == {"y", "Y", "n"}

(***************************************************************************)
(* The statements a user types at the prompt.                              *)
(***************************************************************************)
TypedNames == {"t", "T"}

\* a int | a int, b str | id str | a int, a str | a text | a
TypedColumnChoices ==
  { << <<"a", "int">> >>,
    << <<"a", "int">>, <<"b", "str">> >>,
    << <<"id", "str">> >>,
    << <<"a", "int">>, <<"a", "str">> >>,
    << <<"a", "text">> >>,
    << <<"a">> >> }

\* 1 | 2 | 3.9 | 'x' | 1, 'x' | 'x', 1
TypedValuesChoices ==
  { << <<Tok("1")>> >>, << <<Tok("2")>> >>, << <<Tok("3.9")>> >>,
    << <<Quoted("'", "x")>> >>,
    << <<Tok("1")>>, <<Sp, Quoted("'", "x")>> >>,
    << <<Quoted("'", "x")>>, <<Sp, Tok("1")>> >> }

\* a = 1 | a=2 | a=3.9 | a='x' | id=2 | a=2, z=1
TypedSetChoices ==
  { << <<Tok("a"), Sp, Op("="), Sp, Tok("1")>> >>,
    << <<Tok("a"), Op("="), Tok("2")>> >>,
    << <<Tok("a"), Op("="), Tok("3.9")>> >>,
    << <<Tok("a"), Op("="), Quoted("'", "x")>> >>,
    << <<Tok("id"), Op("="), Tok("2")>> >>,
    << <<Tok("a"), Op("="), Tok("2")>>, <<Sp, Tok("z"), Op("="), Tok("1")>> >> }

\* no WHERE | id = 1 | id = 2 | a > 1 | a
TypedWhereChoices ==
  { <<>>,
    <<Tok("id"), Sp, Op("="), Sp, Tok("1")>>,
    <<Tok("id"), Sp, Op("="), Sp, Tok("2")>>,
    <<Tok("a"), Sp, Op(">"), Sp, Tok("1")>>,
    <<Tok("a")>> }

TypedSelectChoices == { <<"*">>, <<"a">> }

\* Statements whose text does not fit the grammar of their keyword, and
\* one with no known keyword.
OtherStatements ==
  { Stmt("create", "t", <<>>, <<>>, <<>>, <<>>, <<>>),
    Stmt("drop", "", <<>>, <<>>, <<>>, <<>>, <<>>),
    Stmt("insert", "t", <<>>, <<>>, <<>>, <<>>, <<>>),
    Stmt("select", "", <<>>, <<>>, <<"*">>, <<>>, <<>>),
    Stmt("update", "t", <<>>, <<>>, <<>>, << <<Tok("a")>> >>, <<>>),
    Stmt("delete", "", <<>>, <<>>, <<>>, <<>>, <<>>),
    Stmt("other", "t", <<>>, <<>>, <<>>, <<>>, <<>>) }

(***************************************************************************)
(* The calls of a program that keeps one table t with one declared column  *)
(* c, of a type whose coercion can fail, and compares c in WHERE clauses.  *)
(***************************************************************************)
ValueTypes == {"int", "float", "bool"}

\* the value of insert_row and of update_rows for column c
CastValues ==
  { PyBool(TRUE), PyBool(FALSE), PyInt(0), PyInt(1), PyInt(2), PyFloat(39), PyNone,
    PyStr("true"), PyStr("TRUE"), PyStr("1"), PyStr("yes"), PyStr("t"),
    PyStr("false"), PyStr("0"), PyStr("no"), PyStr("f"), PyStr("x"), PyStr("3.9") }

\* The comparison characters of the six operators.
OpPieces(op) == [j \in 1..Len(op) |-> Op(op[j])]

\* c <op> 1 and c <op> 'x', for each of the six operators
CompareConditions ==
  { <<Tok("c"), Sp>> \o OpPieces(op) \o <<Sp, right>> :
      op \in { <<"=">>, <<"!", "=">>, <<">">>, <<"<">>, <<">", "=">>, <<"<", "=">> },
      right \in {Tok("1"), Quoted("'", "x")} }

\* z = 1 | z > 1 (no column z) | c (no operator) | c > 1 = 1 | c = none = none
OtherConditions ==
  { <<Tok("z"), Sp, Op("="), Sp, Tok("1")>>,
    <<Tok("z"), Sp, Op(">"), Sp, Tok("1")>>,
    <<Tok("c")>>,
    <<Tok("c"), Sp, Op(">"), Sp, Tok("1"), Sp, Op("="), Sp, Tok("1")>>,
    <<Tok("c"), Sp, Op("="), Sp, Tok("none"), Sp, Op("="), Sp, Tok("none")>> }

\* where_condition of select_rows
ConditionChoices == CompareConditions \cup OtherConditions

\* <<new value of c, where_condition>> of update_rows
ValueUpdateChoices ==
  { <<v, <<>> >> : v \in CastValues }
    \cup { <<PyInt(2), w>> : w \in { <<Tok("c")>>,
                                     <<Tok("c"), Sp, Op(">"), Op("="), Sp, Tok("1")>>,
                                     <<Tok("c"), Sp, Op(">"), Sp, Quoted("'", "x")>> } }

\* where_condition of delete_rows: c | c = 1
ValueDeleteChoices ==
  { <<Tok("c")>>, <<Tok("c"), Sp, Op("="), Sp, Tok("1")>> }

(***************************************************************************)
(* State.  last is the call that has just returned (its operation, its     *)
(* arguments and its result) until the caller has taken the result; the    *)
(* next call is made after that.  life[t] tells what has happened to table  *)
(* name t: "none" (never created), "fresh" (created for the first time,    *)
(* and no row deleted since), "reborn" (created again after a drop, and no *)
(* row deleted since), "deleted" (created, and a row deleted since) or     *)
(* "dropped" (dropped and not created again).  The files are those of a    *)
(* fresh working directory.                                                *)
(***************************************************************************)
NoStmt == Stmt("", "", <<>>, <<>>, <<>>, <<>>, <<>>)

Call(op, tbl, cols, vals, sel, upd, cond, ans, res) ==
  [op |-> op, via |-> "api", stmt |-> NoStmt, tbl |-> tbl, cols |-> cols,
   vals |-> vals, sel |-> sel, upd |-> upd, cond |-> cond, ans |-> ans, res |-> res]

\* A statement run by execute_command; tbl is the table name it parsed.
Exec(typed, ans, res) ==
  [op |-> typed.kind, via |-> "exec", stmt |-> typed, tbl |-> Upper(typed.name),
   cols |-> <<>>, vals |-> <<>>, sel |-> <<>>, upd |-> <<>>, cond |-> <<>>,
   ans |-> ans, res |-> res]

Idle == Call("", "", <<>>, <<>>, <<>>, <<>>, <<>>, "", NoRes)

NoCache == [set |-> FALSE, val |-> <<>>]

Init ==
  /\ meta = <<>>
  /\ cache = NoCache
  /\ data = [n \in TableNames |-> NoFile]
  /\ written = NoCache
  /\ life = [n \in TableNames |-> "none"]
  /\ last = Idle

Now == Store(meta, cache, data, written)

\* The store becomes out.st, and life follows the result of the call.
Becomes(out, table_name) ==
  /\ meta' = out.st.meta
  /\ cache' = out.st.cache
  /\ data' = out.st.data
  /\ written' = out.st.written
  /\ life' =
       IF out.res = Ok("table_created")
       THEN [life EXCEPT ![table_name] = IF @ = "dropped" THEN "reborn" ELSE "fresh"]
       ELSE IF out.res = Ok("table_dropped") THEN [life EXCEPT ![table_name] = "dropped"]
       ELSE IF out.res.msg = "rows_deleted" /\ out.res.n > 0
       THEN [life EXCEPT ![table_name] = "deleted"]
       ELSE life

\* All rows stored, over all tables.
RECURSIVE SumLen(_, _)
SumLen(d, names) ==
  IF names = {} THEN 0
  ELSE LET n == CHOOSE x \in names : TRUE
       IN Len(d[n].rows) + SumLen(d, names \ {n})

TotalRows == SumLen(data, TableNames)

\* The ids stored for the table leave room for one more below the bound.
BelowMaxId(table_name) ==
  \A i \in 1..Len(data[table_name].rows) :
    LET id == RowId(data[table_name].rows[i])
    IN IsNumeric(id) => Tenths(id) < 10 * MaxId

\* main.py: the result is shown and the next statement is read.
display_results ==
  /\ last # Idle
  /\ last' = Idle
  /\ UNCHANGED <<meta, cache, data, written, life>>

CallCreateTable ==
  /\ last = Idle
  /\ \E table_name \in TableNames, columns \in ColumnChoices :
       \E out \in {create_table(Now, table_name, columns)} :
         /\ Becomes(out, table_name)
         /\ last' = Call("create_table", table_name, columns, <<>>, <<>>, <<>>, <<>>, "", out.res)

CallDropTable ==
  /\ last = Idle
  /\ \E table_name \in TableNames, answer \in AnswerChoices :
       \E out \in {drop_table(Now, table_name, answer)} :
         /\ Becomes(out, table_name)
         /\ last' = Call("drop_table", table_name, <<>>, <<>>, <<>>, <<>>, <<>>, answer, out.res)

CallListTables ==
  /\ last = Idle
  /\ \E out \in {list_tables(Now)} :
     /\ Becomes(out, "t")
     /\ last' = Call("list_tables", "", <<>>, <<>>, <<>>, <<>>, <<>>, "", out.res)

CallInsertRow ==
  /\ last = Idle
  /\ TotalRows < MaxRows
  /\ \E table_name \in TableNames, values \in ValuesChoices :
       \E out \in {insert_row(Now, table_name, values)} :
         /\ BelowMaxId(table_name)
         /\ Becomes(out, table_name)
         /\ last' = Call("insert_row", table_name, <<>>, values, <<>>, <<>>, <<>>, "", out.res)

CallSelectRows ==
  /\ last = Idle
  /\ \E table_name \in TableNames, columns \in SelectChoices, where_condition \in WhereChoices :
       \E out \in {select_rows(Now, table_name, columns, where_condition)} :
         /\ Becomes(out, table_name)
         /\ last' = Call("select_rows", table_name, <<>>, <<>>, columns, <<>>,
                         where_condition, "", out.res)

CallUpdateRows ==
  /\ last = Idle
  /\ \E table_name \in TableNames, updates \in UpdatesChoices, where_condition \in WhereChoices :
       \E out \in {update_rows(Now, table_name, updates, where_condition)} :
         /\ Becomes(out, table_name)
         /\ last' = Call("update_rows", table_name, <<>>, <<>>, <<>>, updates,
                         where_condition, "", out.res)

CallDeleteRows ==
  /\ last = Idle
  /\ \E table_name \in TableNames, where_condition \in WhereChoices, answer \in AnswerChoices :
       \E out \in {delete_rows(Now, table_name, where_condition, answer)} :
         /\ Becomes(out, table_name)
         /\ last' = Call("delete_rows", table_name, <<>>, <<>>, <<>>, <<>>,
                         where_condition, answer, out.res)

\* A program calling the engine.
Next ==
  \/ display_results
  \/ CallCreateTable
  \/ CallDropTable
  \/ CallListTables
  \/ CallInsertRow
  \/ CallSelectRows
  \/ CallUpdateRows
  \/ CallDeleteRows

Spec == Init /\ [][Next]_vars

ValueCreate ==
  /\ last = Idle
  /\ \E type \in ValueTypes :
       \E out \in {create_table(Now, "t", << <<"c", type>> >>)} :
         /\ Becomes(out, "t")
         /\ last' = Call("create_table", "t", << <<"c", type>> >>, <<>>, <<>>, <<>>, <<>>,
                         "", out.res)

ValueDrop ==
  /\ last = Idle
  /\ \E out \in {drop_table(Now, "t", "y")} :
       /\ Becomes(out, "t")
       /\ last' = Call("drop_table", "t", <<>>, <<>>, <<>>, <<>>, <<>>, "y", out.res)

ValueInsert ==
  /\ last = Idle
  /\ TotalRows < MaxRows
  /\ BelowMaxId("t")
  /\ \E value \in CastValues :
       \E out \in {insert_row(Now, "t", <<value>>)} :
         /\ Becomes(out, "t")
         /\ last' = Call("insert_row", "t", <<>>, <<value>>, <<>>, <<>>, <<>>, "", out.res)

ValueSelect ==
  /\ last = Idle
  /\ \E where_condition \in ConditionChoices :
       \E out \in {select_rows(Now, "t", <<"*">>, where_condition)} :
         /\ Becomes(out, "t")
         /\ last' = Call("select_rows", "t", <<>>, <<>>, <<"*">>, <<>>,
                         where_condition, "", out.res)

ValueUpdate ==
  /\ last = Idle
  /\ \E choice \in ValueUpdateChoices :
       \E out \in {update_rows(Now, "t", << <<"c", choice[1]>> >>, choice[2])} :
         /\ Becomes(out, "t")
         /\ last' = Call("update_rows", "t", <<>>, <<>>, <<>>, << <<"c", choice[1]>> >>,
                         choice[2], "", out.res)

ValueDelete ==
  /\ last = Idle
  /\ \E where_condition \in ValueDeleteChoices :
       \E out \in {delete_rows(Now, "t", where_condition, "y")} :
         /\ Becomes(out, "t")
         /\ last' = Call("delete_rows", "t", <<>>, <<>>, <<>>, <<>>,
                         where_condition, "y", out.res)

\* main.py: EXIT (or end of input) ends the process, and the program is
\* started again in the same working directory.  The files stay as they
\* are; the dict that cache_results holds is gone with the process, so the
\* next read_table_metadata reads db_meta.json anew.
Restart ==
  /\ last = Idle
  /\ cache.set
  /\ cache' = NoCache
  /\ written' = NoCache
  /\ UNCHANGED <<meta, data, life, last>>

\* The engine used over several runs of the program.
RestartNext ==
  \/ Next
  \/ Restart

RestartSpec == Init /\ [][RestartNext]_vars

\* A program that stores typed values and queries them with comparisons.
ValueNext ==
  \/ display_results
  \/ ValueCreate
  \/ ValueDrop
  \/ ValueInsert
  \/ ValueSelect
  \/ ValueUpdate
  \/ ValueDelete

ValueSpec == Init /\ [][ValueNext]_vars

\* One statement typed at the prompt and run by execute_command.
Run(typed, answer) ==
  \E out \in {execute_command(Now, typed, answer)} :
    /\ Becomes(out, IF Upper(typed.name) \in TableNames THEN Upper(typed.name) ELSE "T")
    /\ last' = Exec(typed, answer, out.res)

ExecCreate ==
  /\ last = Idle
  /\ \E name \in TypedNames, cols \in TypedColumnChoices :
       Run(Stmt("create", name, cols, <<>>, <<>>, <<>>, <<>>), "")

ExecDrop ==
  /\ last = Idle
  /\ \E name \in TypedNames, answer \in AnswerChoices :
       Run(Stmt("drop", name, <<>>, <<>>, <<>>, <<>>, <<>>), answer)

ExecList ==
  /\ last = Idle
  /\ Run(Stmt("list", "", <<>>, <<>>, <<>>, <<>>, <<>>), "")

ExecInsert ==
  /\ last = Idle
  /\ TotalRows < MaxRows
  /\ \E name \in TypedNames, vals \in TypedValuesChoices :
       /\ BelowMaxId(Upper(name))
       /\ Run(Stmt("insert", name, <<>>, vals, <<>>, <<>>, <<>>), "")

ExecSelect ==
  /\ last = Idle
  /\ \E name \in TypedNames, sel \in TypedSelectChoices, where \in TypedWhereChoices :
       Run(Stmt("select", name, <<>>, <<>>, sel, <<>>, where), "")

ExecUpdate ==
  /\ last = Idle
  /\ \E name \in TypedNames, sets \in TypedSetChoices, where \in TypedWhereChoices :
       Run(Stmt("update", name, <<>>, <<>>, <<>>, sets, where), "")

ExecDelete ==
  /\ last = Idle
  /\ \E name \in TypedNames, where \in TypedWhereChoices, answer \in AnswerChoices :
       Run(Stmt("delete", name, <<>>, <<>>, <<>>, <<>>, where), answer)

ExecOther ==
  /\ last = Idle
  /\ \E typed \in OtherStatements : Run(typed, "y")

\* A user at the prompt of the command line interface.
SessionNext ==
  \/ display_results
  \/ ExecCreate
  \/ ExecDrop
  \/ ExecList
  \/ ExecInsert
  \/ ExecSelect
  \/ ExecUpdate
  \/ ExecDelete
  \/ ExecOther

SessionSpec == Init /\ [][SessionNext]_vars

(***************************************************************************)
(* Properties.                                                             *)
(***************************************************************************)
\* The store after the step.
After == Store(meta', cache', data', written')

\* The schema dict read_table_metadata hands out in store st.
SchemaMap(st) == read_table_metadata(st).cache.val

\* The rows stored for a table.
RowsOf(st, table_name) == st.data[table_name].rows

\* The condition text "id = k".
IdEquals(k) == <<Tok("id"), Sp, Op("="), Sp, Tok(IntToStr(k))>>

\* C1: for an existing table t and an integer k, after the statement
\* DELETE FROM t WHERE id = k has run through execute_command with the
\* confirmation answered y, SELECT * FROM t returns no row whose id is k, and
\* the reported count is 1 if a row with id k was stored before, else 0.
C1_DeleteByIdRemovesRow ==
  [][\A k \in 1..MaxId :
       ( /\ last'.via = "exec"
         /\ last'.op = "delete"
         /\ last'.stmt.where = IdEquals(k)
         /\ last'.ans = "y"
         /\ Has(SchemaMap(Now), last'.tbl) )
       => LET before == RowsOf(Now, last'.tbl)
              selected == execute_command(After,
                            Stmt("select", last'.stmt.name, <<>>, <<>>, <<"*">>, <<>>, <<>>),
                            "").res
          IN /\ selected.kind = "rows"
             /\ \A i \in 1..Len(selected.rows) : RowId(selected.rows[i]) # PyInt(k)
             /\ last'.res = Count("rows_deleted",
                                  IF \E i \in 1..Len(before) : RowId(before[i]) = PyInt(k)
                                  THEN 1 ELSE 0)]_vars

\* C2: no two rows stored in the same table have the same id.
C2_UniqueIds ==
  \A t \in TableNames :
    \A i, j \in 1..Len(data[t].rows) :
      i # j => RowId(data[t].rows[i]) # RowId(data[t].rows[j])

\* C3: in a table created empty and with no deletions since, the n-th
\* successful insert stores a row whose id is n, and each non-id column of
\* that row holds the declared-type coercion of the value supplied at its
\* position.
C3_NthInsertGetsIdN ==
  [][( /\ last'.op = "insert_row"
       /\ last'.res = Ok("row_inserted")
       /\ life[last'.tbl] \in {"fresh", "reborn"} )
     => LET t == last'.tbl
            n == Len(RowsOf(Now, t)) + 1
            declared == SelectSeq(Get(SchemaMap(Now), t), LAMBDA p : p[1] # ID_COLUMN)
            row == RowsOf(After, t)[n]
        IN /\ Len(RowsOf(After, t)) = n
           /\ row[ID_COLUMN] = PyInt(n)
           /\ \A i \in 1..Len(declared) :
                row[declared[i][1]] = _cast_value(last'.vals[i], declared[i][2])]_vars

\* C1 is not what the code does: a state in which DELETE FROM t WHERE id = 1
\* has just reported that it deleted nothing although a row with id 1 is stored.
C1_RowSurvives ==
  /\ last.via = "exec"
  /\ last.op = "delete"
  /\ last.stmt.where = IdEquals(1)
  /\ last.res = Count("rows_deleted", 0)
  /\ \E i \in 1..Len(data[last.tbl].rows) : RowId(data[last.tbl].rows[i]) = PyInt(1)

\* C4: an update that succeeds sets, in exactly the rows for which the
\* predicate evaluates true, every SET column to the coerced value; it
\* leaves every other row and every other column as it was, keeps the row
\* order, and reports the number of rows for which the predicate was true.
C4_UpdateFrame ==
  [][( /\ last'.op = "update_rows"
       /\ last'.res.kind = "ok" )
     => LET t == last'.tbl
            before == RowsOf(Now, t)
            after == RowsOf(After, t)
            schema == Get(SchemaMap(Now), t)
            Pred(row) == \/ last'.cond = <<>>
                         \/ evaluate_condition(row, last'.cond) = "T"
        IN /\ Len(after) = Len(before)
           /\ \A i \in 1..Len(before) :
                /\ DOMAIN after[i] = DOMAIN before[i]
                /\ \A c \in DOMAIN before[i] :
                     after[i][c] =
                       IF Pred(before[i]) /\ Has(last'.upd, c)
                       THEN _cast_value(Get(last'.upd, c), Get(schema, c))
                       ELSE before[i][c]
           /\ last'.res = Count("rows_updated",
                                Cardinality({i \in 1..Len(before) : Pred(before[i])}))
           /\ \A u \in TableNames \ {t} : data'[u] = data[u]
           /\ SchemaMap(After) = SchemaMap(Now)]_vars

\* An update with a WHERE clause has just changed one of two stored rows.
C4_Witness ==
  /\ last.op = "update_rows"
  /\ last.cond # <<>>
  /\ last.res = Count("rows_updated", 1)
  /\ Len(data[last.tbl].rows) = 2

\* C5: after a create_table that succeeds the stored schema holds
\* id with type int and every declared column with its declared type, and
\* table_exists is true, also when a declared column is itself named id.
C5_SchemaHasIntId ==
  (last.op = "create_table" /\ last.res = Ok("table_created"))
  => /\ table_exists(Now, last.tbl)
     /\ LET schema == Get(SchemaMap(Now), last.tbl)
        IN /\ Has(schema, ID_COLUMN)
           /\ Get(schema, ID_COLUMN) = "int"
           /\ \A i \in 1..Len(last.cols) :
                Has(schema, last.cols[i][1]) /\ Get(schema, last.cols[i][1]) = last.cols[i][2]

\* A table has just been created with a declared column named id, and the
\* stored schema gives id the declared type str.
C5_Witness ==
  /\ last.op = "create_table"
  /\ last.res = Ok("table_created")
  /\ Has(last.cols, ID_COLUMN)
  /\ Get(Get(SchemaMap(Now), last.tbl), ID_COLUMN) = "str"

\* C6: once a table has been dropped, and until its name is created again,
\* table_exists is false for it and every SELECT on it fails with the
\* table-not-found error.
C6_DroppedStaysGone ==
  \A t \in TableNames :
    life[t] = "dropped"
    => /\ ~table_exists(Now, t)
       /\ (last.op = "select_rows" /\ last.tbl = t) => last.res = TableNotFound

\* A SELECT has just run on a table that was dropped earlier.
C6_Witness ==
  /\ last.op = "select_rows"
  /\ life[last.tbl] = "dropped"

\* C7: after a metadata write by CREATE or DROP, every read of the table
\* metadata (read_table_metadata, table_exists, list_tables) gives the
\* schema map handed to the latest write.
C7_ReadsSeeLastWrite ==
  written.set
  => /\ SchemaMap(Now) = written.val
     /\ \A t \in TableNames : table_exists(Now, t) <=> Has(written.val, t)
     /\ last.op = "list_tables"
          => last.res.rows = [i \in 1..Len(written.val) |-> written.val[i][1]]

\* list_tables has just read the metadata after a CREATE and a DROP wrote it.
C7_Witness ==
  /\ written.set
  /\ last.op = "list_tables"
  /\ last.res.rows # <<>>
  /\ \E t \in TableNames : life[t] = "dropped"

\* C8: a statement that ends in an error leaves the metadata file, the
\* schema map and the rows of every table as they were.
C8_ErrorsChangeNothing ==
  [][last'.res.kind = "error"
     => /\ meta' = meta
        /\ data' = data
        /\ SchemaMap(After) = SchemaMap(Now)]_vars

\* An UPDATE whose first SET column is fine and whose second is unknown has
\* just failed on a table that holds a row.
C8_Witness ==
  /\ last.op = "update"
  /\ Len(last.stmt.sets) = 2
  /\ last.res = Err("column_not_found")
  /\ data[last.tbl].rows # <<>>

\* The operations that need an existing table.
NeedTable == {"insert_row", "select_rows", "update_rows", "delete_rows", "drop_table"}

\* C9 as stated: called with the name of a table that does not exist, each
\* of them returns the table-not-found error, whatever the confirmation
\* answer, and changes nothing stored.
C9_MissingTableAlwaysNotFound ==
  [][(last'.op \in NeedTable /\ ~table_exists(Now, last'.tbl))
     => /\ last'.res = TableNotFound
        /\ meta' = meta
        /\ data' = data
        /\ SchemaMap(After) = SchemaMap(Now)]_vars

\* C9 amended: called with the name of a table that does not exist, each
\* of them changes nothing stored; insert_row, select_rows and update_rows
\* return the table-not-found error, drop_table and delete_rows return it
\* when the confirmation is answered y or Y and "Action cancelled" otherwise.
C9_MissingTable ==
  [][(last'.op \in NeedTable /\ ~table_exists(Now, last'.tbl))
     => /\ last'.res =
             IF last'.op \in {"delete_rows", "drop_table"} /\ last'.ans \notin {"y", "Y"}
             THEN Cancelled ELSE TableNotFound
        /\ meta' = meta
        /\ data' = data
        /\ SchemaMap(After) = SchemaMap(Now)]_vars

\* delete_rows, confirmed with Y, has just failed on a table that does not exist.
C9_Witness ==
  /\ last.op = "delete_rows"
  /\ last.ans = "Y"
  /\ last.res = TableNotFound

\* C10: create_table on a name that exists returns the table-exists error
\* and leaves the schema of the table and its stored rows as they were.
C10_CreateExisting ==
  [][(last'.op = "create_table" /\ table_exists(Now, last'.tbl))
     => /\ last'.res = Err("table_exists")
        /\ SchemaMap(After) = SchemaMap(Now)
        /\ data' = data
        /\ meta' = meta]_vars

\* create_table has just been refused on a table that holds rows.
C10_Witness ==
  /\ last.op = "create_table"
  /\ last.res = Err("table_exists")
  /\ data[last.tbl].rows # <<>>

\* The pieces of a typed value that are quoted string literals.
QuotedIn(text) == SelectSeq(text, LAMBDA p : p.k = "tok" /\ p.q # "")

\* C11: a statement run by execute_command keeps the letter case typed for
\* identifiers and for the contents of quoted strings: a CREATE TABLE that
\* succeeds makes the table exist under the name as typed, with the columns
\* named as typed, and an INSERT that succeeds stores each quoted string
\* with the case typed.
C11_CasePreserved ==
  [][( /\ last'.via = "exec"
       /\ last'.res.kind = "ok"
       /\ last'.op \in {"create", "insert"} )
     => LET typed == last'.stmt IN
        /\ typed.name \in TableNames
        /\ table_exists(After, typed.name)
        /\ last'.op = "create"
             => \A i \in 1..Len(typed.cols) :
                  Has(Get(SchemaMap(After), typed.name), typed.cols[i][1])
        /\ last'.op = "insert"
             => LET rows == RowsOf(After, typed.name) IN
                /\ rows # <<>>
                /\ \A i \in 1..Len(typed.vals) :
                     \A j \in 1..Len(QuotedIn(typed.vals[i])) :
                       \E c \in DOMAIN rows[Len(rows)] :
                         rows[Len(rows)][c] = PyStr(QuotedIn(typed.vals[i])[j].s)]_vars

\* A table typed as t has just been created, and it exists as T only.
C11_StoredUpperCase ==
  /\ last.via = "exec"
  /\ last.op = "create"
  /\ last.res = Ok("table_created")
  /\ last.stmt.name = "t"
  /\ table_exists(Now, "T")
  /\ ~table_exists(Now, "t")

\* A value that is no integer: null, a string that is no integer literal,
\* or a number with a fraction.
NotIntegral(value) ==
  \/ value.t = "none"
  \/ value.t = "str" /\ ~IsIntLiteral(value.v)
  \/ value.t = "float" /\ value.v % 10 # 0

\* C12: an INSERT that supplies, and an UPDATE that sets, a value that is
\* no integer for a column declared int fails and stores nothing; the
\* INSERT fails with the type-mismatch error.
C12_IntCoercionStrict ==
  [][( /\ last'.via = "exec"
       /\ last'.op \in {"insert", "update"}
       /\ table_exists(Now, last'.tbl) )
     => LET command == UpperStmt(last'.stmt)
            schema == Get(SchemaMap(Now), last'.tbl)
            col_names == NonIdPairs(schema)
            values == parse_insert(command)
            updates == parse_update(command)
        IN /\ ( /\ last'.op = "insert"
                /\ ParseInsertError(command) = ""
                /\ Len(values) = Len(col_names)
                /\ \E i \in 1..Len(values) :
                     col_names[i][2] = "int" /\ NotIntegral(values[i]) )
              => (last'.res = Err("cast") /\ data' = data)
           /\ ( /\ last'.op = "update"
                /\ ParseUpdateError(command) = ""
                /\ \E i \in 1..Len(updates) :
                     /\ Has(schema, updates[i][1])
                     /\ Get(schema, updates[i][1]) = "int"
                     /\ NotIntegral(updates[i][2]) )
              => (last'.res.kind = "error" /\ data' = data)]_vars

\* INSERT INTO t VALUES (3.9) has just succeeded on a table whose one
\* declared column is an int, and the row stored holds 3.
C12_Truncated ==
  /\ last.via = "exec"
  /\ last.op = "insert"
  /\ last.stmt.vals = << <<Tok("3.9")>> >>
  /\ last.res = Ok("row_inserted")
  /\ LET rows == data[last.tbl].rows
     IN rows # <<>> /\ rows[Len(rows)]["A"] = PyInt(3)

\* The declared type of column c of table t.
TypeOfC == Get(Get(SchemaMap(Now), "t"), "c")

\* The values the bool rule of C13 accepts, and what it makes of them.
StatedBoolAccepts(value) ==
  \/ value.t = "bool"
  \/ value.t = "int"
  \/ /\ value.t = "str"
     /\ Lower(value.v) \in {"true", "1", "yes", "t", "false", "0", "no", "f"}

StatedBoolOf(value) ==
  CASE value.t = "bool" -> value
    [] value.t = "int" -> PyBool(value.v # 0)
    [] OTHER -> PyBool(Lower(value.v) \in {"true", "1", "yes", "t"})

\* C13: insert_row and update_rows coerce a value for a column declared
\* bool by one rule: booleans, the strings true/1/yes/t and false/0/no/f in
\* any letter case, and integers (0 false, others true) are stored as the
\* boolean they stand for; every other value fails with the type-mismatch
\* error and stores nothing.
C13_BoolCoercion ==
  [][( /\ last'.op \in {"insert_row", "update_rows"}
       /\ last'.cond = <<>>
       /\ table_exists(Now, "t")
       /\ TypeOfC = "bool" )
     => LET value == IF last'.op = "insert_row" THEN last'.vals[1] ELSE last'.upd[1][2]
            before == RowsOf(Now, "t")
            after == RowsOf(After, "t")
        IN IF StatedBoolAccepts(value)
           THEN /\ last'.res.kind = "ok"
                /\ last'.op = "insert_row"
                     => /\ Len(after) = Len(before) + 1
                        /\ after[Len(after)]["c"] = StatedBoolOf(value)
                /\ last'.op = "update_rows"
                     => \A i \in 1..Len(after) : after[i]["c"] = StatedBoolOf(value)
           ELSE last'.res = Err("cast") /\ data' = data]_vars

\* insert_row has just refused the string t for a column declared bool.
C13_RefusedT ==
  /\ last.op = "insert_row"
  /\ last.vals = <<PyStr("t")>>
  /\ table_exists(Now, "t")
  /\ TypeOfC = "bool"
  /\ last.res = Err("cast")

(***************************************************************************)
(* C14.  Comparisons of operands whose types do not fit.                   *)
(***************************************************************************)
SixOperators == { <<"=">>, <<"!", "=">>, <<">">>, <<"<">>, <<">", "=">>, <<"<", "=">> }

\* A number stands against a string, or null against a number or a string.
Incompatible(l, r) ==
  \/ IsNumeric(l) /\ r.t = "str"
  \/ l.t = "str" /\ IsNumeric(r)
  \/ l.t = "none" /\ r.t # "none"

\* The select_rows call that has just returned compared, on some row of the
\* table, column col (null when the row has no such column) with a literal of
\* an incompatible type.
C14_Mismatched ==
  /\ last.op = "select_rows"
  /\ table_exists(Now, "t")
  /\ \E op \in SixOperators, col \in {"c", "z"}, right \in {Tok("1"), Quoted("'", "x")} :
       /\ last.cond = <<Tok(col), Sp>> \o OpPieces(op) \o <<Sp, right>>
       /\ \E i \in 1..Len(RowsOf(Now, "t")) :
            LET row == RowsOf(Now, "t")[i]
            IN Incompatible(IF col \in DOMAIN row THEN row[col] ELSE PyNone,
                            _parse_value(<<right>>))

\* C14: a WHERE comparison whose left operand (the row's value, or null for
\* an absent column) and right literal have incompatible types fails with an
\* error, for each of the six operators; it never silently gives false or true.
C14_MismatchIsError == C14_Mismatched => last.res.kind = "error"

\* c = 'x' on a table of numbers returned an empty list of rows: a silent false.
C14_SilentFalse ==
  /\ C14_Mismatched
  /\ last.cond = <<Tok("c"), Sp, Op("="), Sp, Quoted("'", "x")>>
  /\ last.res = Res("rows", "", 0, <<>>)

(***************************************************************************)
(* C15.  The rows of a table are kept, and returned, in insertion order.   *)
(***************************************************************************)
\* The call that has just returned was op on table n.
Did(op, n) == last'.op = op /\ last'.tbl = n

\* C15: SELECT * FROM t after inserting rows R1..Rn into t, with no deletion
\* or update in between, returns exactly those n rows in insertion order:
\* a created table holds no row, every successful insert_row puts its row
\* after the rows already stored, no call other than an update, a delete or a
\* drop changes the stored rows, and select_rows with * and no WHERE returns
\* the stored rows as they stand.
C15_InsertionOrder ==
  [][\A n \in TableNames :
       LET before == RowsOf(Now, n)
           after == RowsOf(After, n)
           inserted == Did("insert_row", n) /\ last'.res = Ok("row_inserted")
       IN /\ (Did("create_table", n) /\ last'.res = Ok("table_created")) => after = <<>>
          /\ inserted =>
               /\ Len(after) = Len(before) + 1
               /\ SubSeq(after, 1, Len(before)) = before
          /\ (/\ Did("select_rows", n)
              /\ last'.sel = <<"*">>
              /\ last'.cond = <<>>
              /\ table_exists(Now, n))
               => last'.res = Res("rows", "", 0, before)
          /\ (/\ ~inserted
              /\ ~Did("update_rows", n)
              /\ ~Did("delete_rows", n)
              /\ ~Did("drop_table", n))
               => after = before
  ]_vars

\* SELECT * returned the two rows inserted, the first one first, from a table
\* that has seen no deletion.
C15_TwoRowsInOrder ==
  /\ last.op = "select_rows"
  /\ last.sel = <<"*">>
  /\ last.cond = <<>>
  /\ life[last.tbl] = "fresh"
  /\ Len(last.res.rows) = 2
  /\ RowId(last.res.rows[1]) = PyInt(1)
  /\ RowId(last.res.rows[2]) = PyInt(2)
  /\ last.res.rows = RowsOf(Now, last.tbl)

(***************************************************************************)
(* C16.  The number of values of insert_row, and where each one goes.      *)
(***************************************************************************)
\* The schema of table n, and its columns other than id in declared order.
SchemaOf(n) == Get(SchemaMap(Now), n)

DeclaredNames(n) ==
  SelectSeq([i \in 1..Len(SchemaOf(n)) |-> SchemaOf(n)[i][1]], LAMBDA c : c # ID_COLUMN)

\* C16: insert_row stores a row only when exactly (number of schema columns
\* - 1) values are supplied; any other count fails with an arity error and
\* stores nothing; the supplied values are matched by position to the non-id
\* columns in the order the schema declares them.
C16_ArityAndPosition ==
  [][\A n \in TableNames :
       (Did("insert_row", n) /\ table_exists(Now, n)) =>
         LET values == last'.vals
             names == DeclaredNames(n)
             before == RowsOf(Now, n)
             after == RowsOf(After, n)
         IN /\ Len(values) # Len(SchemaOf(n)) - 1 =>
                 /\ last'.res = Err("arity")
                 /\ after = before
            /\ after # before =>
                 /\ Len(values) = Len(SchemaOf(n)) - 1
                 /\ last'.res = Ok("row_inserted")
                 /\ LET row == after[Len(after)]
                    IN /\ DOMAIN row = {names[i] : i \in 1..Len(names)} \cup {ID_COLUMN}
                       /\ \A i \in 1..Len(names) :
                            /\ ~CastFails(values[i], Get(SchemaOf(n), names[i]))
                            /\ row[names[i]] = _cast_value(values[i], Get(SchemaOf(n), names[i]))
  ]_vars

\* Two values went to the two declared columns in their order: the first to
\* the int column a, the second to the str column b.
C16_StoredByPosition ==
  /\ last.op = "insert_row"
  /\ last.vals = <<PyStr("2"), PyStr("x")>>
  /\ last.res = Ok("row_inserted")
  /\ LET rows == RowsOf(Now, last.tbl)
     IN /\ rows # <<>>
        /\ rows[Len(rows)]["a"] = PyInt(2)
        /\ rows[Len(rows)]["b"] = PyStr("x")

(***************************************************************************)
(* C17.  Every statement gets a result.                                    *)
(***************************************************************************)
ResultKinds == {"ok", "error", "cancelled", "rows", "list"}

\* C17: execute_command returns a result value for every input text and
\* never raises to its caller; a text whose leading keyword is not one of the
\* recognized statements returns the Unknown command error result and
\* changes no stored state.
C17_AlwaysAResult ==
  [][last'.via = "exec" =>
       /\ last'.res.kind \in ResultKinds
       /\ last'.stmt.kind = "other" =>
            /\ last'.res.kind = "error"
            /\ last'.res.msg = "unknown_command"
            /\ UNCHANGED <<meta, cache, data, written>>
  ]_vars

\* A text with no known keyword was answered with the Unknown command error
\* while a table with rows was stored.
C17_UnknownCommand ==
  /\ last.via = "exec"
  /\ last.stmt.kind = "other"
  /\ last.res.kind = "error"
  /\ last.res.msg = "unknown_command"
  /\ table_exists(Now, "T")
  /\ RowsOf(Now, "T") # <<>>

(***************************************************************************)
(* C18.  The schema of a table is fixed at its creation.                   *)
(***************************************************************************)
\* C18: once a table is created its schema never changes: after any
\* sequence of insert_row, select_rows, update_rows and delete_rows calls,
\* successful or failing, the schema map entry of every table equals the one
\* written at its creation; only DROP removes it.  Step by step: an entry
\* appears only through a successful create_table, which writes the declared
\* columns together with id; an entry that is there stays as it is through
\* every call but a successful drop_table of that table.
C18_SchemaImmutable ==
  [][\A n \in TableNames :
       LET dropped == Did("drop_table", n) /\ last'.res = Ok("table_dropped")
       IN /\ (Has(SchemaMap(Now), n) /\ ~dropped) =>
               /\ Has(SchemaMap(After), n)
               /\ Get(SchemaMap(After), n) = Get(SchemaMap(Now), n)
          /\ (~Has(SchemaMap(Now), n) /\ Has(SchemaMap(After), n)) =>
               /\ Did("create_table", n)
               /\ last'.res = Ok("table_created")
               /\ LET entry == Get(SchemaMap(After), n)
                  IN /\ Keys(entry) = Keys(last'.cols) \cup {ID_COLUMN}
                     /\ \A i \in 1..Len(last'.cols) :
                          Get(entry, last'.cols[i][1]) = last'.cols[i][2]
  ]_vars

\* An update has changed a row, and the table still has the schema of its
\* creation: id, a and b.
C18_SameSchemaAfterUpdate ==
  /\ last.op = "update_rows"
  /\ last.res.kind = "ok"
  /\ last.res.n > 0
  /\ Has(SchemaMap(Now), last.tbl)
  /\ Get(SchemaMap(Now), last.tbl) = << <<"id", "int">>, <<"a", "int">>, <<"b", "str">> >>

(***************************************************************************)
(* C19.  The id of a new row.                                              *)
(***************************************************************************)
\* No stored id is larger than m, and m is a stored id or 0 for no rows.
IsMaxId(m, rows) ==
  /\ \A i \in 1..Len(rows) : Tenths(RowId(rows[i])) <= m
  /\ \/ rows = <<>> /\ m = 0
     \/ \E i \in 1..Len(rows) : Tenths(RowId(rows[i])) = m

\* C19: insert_row assigns the new row the id max(ids of the rows currently
\* stored in the table, 0 when empty) + 1; so after the row holding the
\* highest id is deleted, the next insert assigns that same id again.
C19_IdIsMaxPlusOne ==
  [][\A n \in TableNames :
       (Did("insert_row", n) /\ last'.res = Ok("row_inserted")) =>
         LET before == RowsOf(Now, n)
             after == RowsOf(After, n)
         IN /\ after # <<>>
            /\ IsNumeric(RowId(after[Len(after)]))
            /\ IsMaxId(Tenths(RowId(after[Len(after)])) - 10, before)
  ]_vars

\* The table held rows 1 and 2, row 2 was deleted, and the next insert gave
\* the new row the id 2 again.
C19_IdHandedOutAgain ==
  /\ last.op = "insert_row"
  /\ last.res = Ok("row_inserted")
  /\ life[last.tbl] = "deleted"
  /\ LET rows == RowsOf(Now, last.tbl)
     IN /\ Len(rows) = 2
        /\ RowId(rows[1]) = PyInt(1)
        /\ RowId(rows[2]) = PyInt(2)

(***************************************************************************)
(* C20.  Which operator a WHERE text is split at.                          *)
(***************************************************************************)
\* The order >=, <=, !=, =, >, <.
StatedOrder == << <<">", "=">>, <<"<", "=">>, <<"!", "=">>, <<"=">>, <<">">>, <<"<">> >>

\* What the stated rule gives for a row: true when the text holds none of
\* the operators; else the comparison at the first occurrence of the first
\* operator of the order that occurs anywhere in the text.
StatedVerdict(row, text) ==
  IF \A k \in 1..Len(StatedOrder) : ~OpIn(text, StatedOrder[k]) THEN "T"
  ELSE LET k == CHOOSE k \in 1..Len(StatedOrder) :
                  /\ OpIn(text, StatedOrder[k])
                  /\ \A j \in 1..(k - 1) : ~OpIn(text, StatedOrder[j])
           op == StatedOrder[k]
           i == CHOOSE i \in 1..Len(text) :
                  /\ OpAt(text, op, i)
                  /\ \A j \in 1..(i - 1) : ~OpAt(text, op, j)
       IN Compare(op, RowGet(row, Strip(SubSeq(text, 1, i - 1))),
                  _parse_value(Strip(SubSeq(text, i + Len(op), Len(text)))))

\* C20: evaluate_condition tries the operators in the order >=, <=, !=, =,
\* >, < and splits the condition at the first occurrence of the first
\* operator of that order that occurs anywhere in the text; when the text
\* holds none of them it is true for every row, so a SELECT, UPDATE or
\* DELETE whose WHERE text has no operator applies to all rows of the table.
C20_OperatorOrder ==
  [][(last'.tbl = "t" /\ last'.cond # <<>> /\ table_exists(Now, "t")) =>
       LET before == RowsOf(Now, "t")
           after == RowsOf(After, "t")
           text == last'.cond
           Hit(row) == StatedVerdict(row, text) = "T"
           raises == \E i \in 1..Len(before) : StatedVerdict(before[i], text) = "E"
           hits == Len(SelectSeq(before, Hit))
       IN /\ last'.op = "select_rows" =>
               last'.res = IF raises THEN Err("unexpected")
                           ELSE Res("rows", "", 0, SelectSeq(before, Hit))
          /\ last'.op = "delete_rows" =>
               IF raises THEN last'.res = Err("unexpected") /\ after = before
               ELSE /\ last'.res = Count("rows_deleted", hits)
                    /\ after = SelectSeq(before, LAMBDA row : ~Hit(row))
          /\ (last'.op = "update_rows" /\ last'.res.kind = "ok") =>
               /\ ~raises
               /\ last'.res = Count("rows_updated", hits)
               /\ Len(after) = Len(before)
               /\ \A i \in 1..Len(before) :
                    IF Hit(before[i])
                    THEN after[i]["c"] = _cast_value(last'.upd[1][2], TypeOfC)
                    ELSE after[i] = before[i]
  ]_vars

\* DELETE with the WHERE text c, which holds no operator, removed both rows
\* of the table.
C20_NoOperatorDeletesAll ==
  /\ last.op = "delete_rows"
  /\ last.cond = <<Tok("c")>>
  /\ last.res = Count("rows_deleted", 2)
  /\ RowsOf(Now, "t") = <<>>

(***************************************************************************)
(* C21.  The keys of the stored rows.                                      *)
(***************************************************************************)
\* C21: in every reachable state, every stored row of a table has exactly
\* the columns of that table's schema as its keys (id included, no column
\* missing and none extra), after any sequence of successful or failing
\* inserts, updates and deletes.
C21_RowsHaveSchemaKeys ==
  \A n \in TableNames :
    Has(SchemaMap(Now), n) =>
      \A i \in 1..Len(RowsOf(Now, n)) :
        DOMAIN RowsOf(Now, n)[i] = Keys(Get(SchemaMap(Now), n))

\* An update has changed both rows of a table, and both have the keys id, a
\* and b.
C21_TwoRowsUpdated ==
  /\ last.op = "update_rows"
  /\ last.res = Count("rows_updated", 2)
  /\ Len(RowsOf(Now, last.tbl)) = 2
  /\ \A i \in 1..2 : DOMAIN RowsOf(Now, last.tbl)[i] = {"id", "a", "b"}

(***************************************************************************)
(* C22.  The confirmation of drop_table and delete_rows.                   *)
(***************************************************************************)
\* C22: drop_table and delete_rows ask for confirmation before doing
\* anything else (before the table-existence check); when the answer is
\* anything other than y, in either case, they return Action cancelled and
\* leave the schema map and all stored rows unchanged.  Nothing is read
\* either: the metadata cache is as it was; and an answer y or Y never gives
\* Action cancelled.
C22_CancelledFirst ==
  [][(last'.op \in {"drop_table", "delete_rows"} /\ last'.via = "api") =>
       IF last'.ans \in {"y", "Y"}
       THEN last'.res.kind # "cancelled"
       ELSE /\ last'.res.kind = "cancelled"
            /\ last'.res.msg = "Action cancelled"
            /\ SchemaMap(After) = SchemaMap(Now)
            /\ UNCHANGED <<meta, cache, data>>
  ]_vars

\* A delete_rows answered with n was cancelled and left both rows stored.
C22_DeleteCancelled ==
  /\ last.op = "delete_rows"
  /\ last.ans = "n"
  /\ last.res.kind = "cancelled"
  /\ Len(RowsOf(Now, last.tbl)) = 2

(***************************************************************************)
(* C23.  A table created again after a drop.                               *)
(***************************************************************************)
\* C23: after a table is dropped and a table of the same name is created
\* again, the new table is empty (SELECT * returns no rows) and its first
\* insert gets id 1; no row of the earlier incarnation ever reappears.
\* Step by step: while the name is dropped no rows are stored for it; its
\* creation leaves it with no rows; rows are added by a successful
\* insert_row only, one at a time; SELECT * on a table without rows returns
\* the empty list, and the insert into a table without rows stores id 1.
C23_RecreatedIsEmpty ==
  [][\A n \in TableNames :
       LET before == RowsOf(Now, n)
           after == RowsOf(After, n)
           inserted == Did("insert_row", n) /\ last'.res = Ok("row_inserted")
       IN /\ life[n] = "dropped" => data[n] = NoFile
          /\ (/\ life[n] = "dropped"
              /\ Did("create_table", n)
              /\ last'.res = Ok("table_created"))
               => after = <<>> /\ life'[n] = "reborn"
          /\ Len(after) > Len(before) => inserted /\ Len(after) = Len(before) + 1
          /\ (inserted /\ before = <<>>) => RowId(after[1]) = PyInt(1)
          /\ (/\ Did("select_rows", n)
              /\ last'.sel = <<"*">>
              /\ last'.cond = <<>>
              /\ Has(SchemaMap(Now), n)
              /\ before = <<>>)
               => last'.res = Res("rows", "", 0, <<>>)
  ]_vars

\* The first insert into a table created again after a drop has stored the
\* only row of the table, with id 1.
C23_FirstInsertAfterRebirth ==
  /\ last.op = "insert_row"
  /\ last.res = Ok("row_inserted")
  /\ life[last.tbl] = "reborn"
  /\ Len(RowsOf(Now, last.tbl)) = 1
  /\ RowId(RowsOf(Now, last.tbl)[1]) = PyInt(1)

(***************************************************************************)
(* C24.  Schema entries and stored row sequences go together.              *)
(***************************************************************************)
\* C24: at every operation boundary (no crash inside an operation) a table
\* name has a schema entry if and only if it has a stored row sequence;
\* create_table and drop_table each do the schema step first and the row
\* step second, so only a crash between the two steps can leave one
\* without the other.
C24_SchemaIffRows ==
  \A n \in TableNames : Has(SchemaMap(Now), n) <=> data[n].exists

\* Between two statements of a later run of the program, the rows of table t
\* are stored and the schema map has no entry for t.
C24_RowsWithoutSchema ==
  /\ last = Idle
  /\ ~cache.set
  /\ ~Has(SchemaMap(Now), "t")
  /\ data["t"].exists
  /\ RowsOf(Now, "t") # <<>>

====
